---- MODULE Spec2Model ----
(***************************************************************************)
(* Model of backend/main.py: the route optimizer API.                      *)
(*                                                                         *)
(* One request at a time is followed through its handler (the handlers     *)
(* share no mutable state across requests).  The handlers of POST          *)
(* /optimize and POST /optimize-route are split at their calls             *)
(* (geocode_address, calculate_distance_matrix, solve_tsp_advanced,        *)
(* create_route_segments), so that the order of those calls is visible.    *)
(*                                                                         *)
(* Representation:                                                         *)
(*  - Optional[T] is a sequence of length <= 1: <<>> is None, <<v>> is v.  *)
(*  - Coordinates are <<lat, lng>> in whole degrees on the equator.        *)
(*  - Matrix costs are integers in decimetres (0.1 m), so that the         *)
(*    vehicle multipliers 1.1 / 0.9 / 0.8 are exact.                       *)
(*  - Python lists are 1-based sequences; stop indices stay 0-based, as    *)
(*    in the code, so matrix[i][j] of the code is matrix[i + 1][j + 1].    *)
(*  - A float ratio is a record [num, den] (improvement percentage).       *)
(*  - category, priority, timeWindow and serviceTime are carried through   *)
(*    by the code unread and are left out.                                 *)
(***************************************************************************)
EXTENDS Integers, Sequences, FiniteSets, TLC

\* Largest number of locations in a request.
MaxLocs == 3

None == <<>>

Some(v) == <<v>>

Max(a, b) == IF a >= b THEN a ELSE b

Abs(a) == IF a >= 0 THEN a ELSE 0 - a

RECURSIVE SumSeq(_)
SumSeq(s) == IF s = <<>> THEN 0 ELSE Head(s) + SumSeq(Tail(s))

(***************************************************************************)
(* Geocoding providers (geopy Nominatim and ArcGIS).  What a provider      *)
(* does with an address is the environment's choice, made anew at every    *)
(* call: "found" (a location), "none" (no result) or "raise" (an error     *)
(* such as a timeout).                                                     *)
(***************************************************************************)
ProviderOutcomes == {"found", "none", "raise"}

ProviderEnvs == [osm : ProviderOutcomes, arcgis : ProviderOutcomes]

\* The location Nominatim reports for an address it resolves.
geolocator_osm(address) == <<0, 2>>

\* The location ArcGIS reports for an address it resolves.
geolocator_arcgis(address) == <<0, 1>>

NoGeocode ==
    [called |-> FALSE, ok |-> FALSE, coordinate |-> None,
     attempts |-> <<>>, error |-> ""]

(***************************************************************************)
(* geocode_address: the primary provider is called first; the secondary    *)
(* only when the primary returned no location.  Whatever is raised inside  *)
(* the try block, the "Could not geocode" ValueError included, is caught   *)
(* and raised again as ValueError("Geocoding failed for ...").             *)
(***************************************************************************)
geocode_address(address, env) ==
    IF env.osm = "raise"
    THEN [called |-> TRUE, ok |-> FALSE, coordinate |-> None,
          attempts |-> <<"osm">>,
          error |-> "Geocoding failed for '" \o address \o "': provider error"]
    ELSE IF env.osm = "found"
    THEN [called |-> TRUE, ok |-> TRUE,
          coordinate |-> Some(geolocator_osm(address)),
          attempts |-> <<"osm">>, error |-> ""]
    ELSE IF env.arcgis = "raise"
    THEN [called |-> TRUE, ok |-> FALSE, coordinate |-> None,
          attempts |-> <<"osm", "arcgis">>,
          error |-> "Geocoding failed for '" \o address \o "': provider error"]
    ELSE IF env.arcgis = "found"
    THEN [called |-> TRUE, ok |-> TRUE,
          coordinate |-> Some(geolocator_arcgis(address)),
          attempts |-> <<"osm", "arcgis">>, error |-> ""]
    ELSE [called |-> TRUE, ok |-> FALSE, coordinate |-> None,
          attempts |-> <<"osm", "arcgis">>,
          error |-> "Geocoding failed for '" \o address
                        \o "': Could not geocode address: " \o address]

(***************************************************************************)
(* geopy.distance.geodesic(a, b).meters for two points of the equator:     *)
(* 111319 m for each degree of longitude between them, in whole metres.    *)
(***************************************************************************)
geodesic(a, b) == 111319 * Abs(a[2] - b[2])

\* The vehicle's distance adjustment, in tenths (1.1 -> 11).
vehicle_adjustment(vehicle_type) ==
    CASE vehicle_type = "truck" -> 11
      [] vehicle_type = "bike" -> 9
      [] vehicle_type = "walking" -> 8
      [] OTHER -> 10

(***************************************************************************)
(* calculate_distance_matrix: geodesic distance times the vehicle's        *)
(* adjustment off the diagonal, 0 on it.  Entries are in decimetres.       *)
(***************************************************************************)
calculate_distance_matrix(locations, vehicle_type) ==
    LET n == Len(locations)
    IN [i \in 1..n |->
          [j \in 1..n |->
             IF i # j
             THEN geodesic(locations[i], locations[j])
                      * vehicle_adjustment(vehicle_type)
             ELSE 0]]

(***************************************************************************)
(* distance_callback: the arc cost handed to the routing library, in whole *)
(* metres: int(base_distance * w) with w = 1.2, 1.1 or 1 by strategy.      *)
(***************************************************************************)
distance_callback(distance_matrix, optimization_type, from_node, to_node) ==
    LET base_distance == distance_matrix[from_node + 1][to_node + 1]
    IN CASE optimization_type = "time" -> (base_distance * 12) \div 100
         [] optimization_type = "balanced" -> (base_distance * 11) \div 100
         [] OTHER -> base_distance \div 10

(***************************************************************************)
(* The routing library (OR-Tools RoutingIndexManager / RoutingModel) for   *)
(* one vehicle.  Indices 0..n-1 stand for the nodes and index n is the     *)
(* vehicle's end, which maps back to the depot.                            *)
(***************************************************************************)
IndexToNode(n, depot, index) == IF index = n THEN depot ELSE index

IsEnd(n, index) == index = n

\* The orders in which one vehicle leaving the depot can visit all n nodes.
Tours(n, depot) ==
    {p \in [1..n -> 0..(n - 1)] :
        /\ p[1] = depot
        /\ \A a, b \in 1..n : a # b => p[a] # p[b]}

\* The NextVar values of a tour: each index's successor, the end after the last.
NextVar(n, p) ==
    [index \in 0..(n - 1) |->
        LET k == CHOOSE k \in 1..n : p[k] = index
        IN IF k = n THEN n ELSE p[k + 1]]

\* The cost the library minimises: the registered arc cost summed over the
\* tour's arcs, the arc from the last node to the vehicle's end (the depot)
\* included.
ObjectiveValue(distance_matrix, optimization_type, depot, p) ==
    LET n == Len(p)
    IN SumSeq([k \in 1..n |->
                 distance_callback(distance_matrix, optimization_type, p[k],
                                   IF k = n THEN depot ELSE p[k + 1])])

(***************************************************************************)
(* routing.SolveWithParameters: the library answers with an assignment of  *)
(* a tour over all nodes from the depot, or with None.  Which tour the     *)
(* guided local search stops at within its time limit is not fixed by the  *)
(* program, so every tour is a possible answer.                            *)
(***************************************************************************)
SolveWithParameters(distance_matrix, optimization_type, depot) ==
    LET n == Len(distance_matrix)
    IN {None} \cup
       {Some([next |-> NextVar(n, p),
              objective |-> ObjectiveValue(distance_matrix, optimization_type,
                                           depot, p)]) :
          p \in Tours(n, depot)}

\* The walk of the found route with an off-by-one end test: it stops at the
\* last node instead of at the vehicle's end, and leaves that node out.
RECURSIVE extract_route_stops_early(_, _, _, _)
extract_route_stops_early(distance_matrix, depot, next, st) ==
    LET n == Len(distance_matrix)
    IN IF IsEnd(n, next[st.index])
       THEN st
       ELSE LET previous_index == st.index
                index == next[previous_index]
            IN extract_route_stops_early(distance_matrix, depot, next,
                 [index |-> index,
                  route |-> Append(st.route, IndexToNode(n, depot, previous_index)),
                  total_distance |-> st.total_distance
                      + distance_matrix[IndexToNode(n, depot, previous_index) + 1]
                                       [IndexToNode(n, depot, index) + 1],
                  iterations |-> st.iterations + 1])

\* The walk of the found route without the end test on the distance: the arc
\* from the last node to the vehicle's end is added too.
RECURSIVE extract_route_counts_end_arc(_, _, _, _)
extract_route_counts_end_arc(distance_matrix, depot, next, st) ==
    LET n == Len(distance_matrix)
    IN IF IsEnd(n, st.index)
       THEN st
       ELSE LET previous_index == st.index
                index == next[previous_index]
            IN extract_route_counts_end_arc(distance_matrix, depot, next,
                 [index |-> index,
                  route |-> Append(st.route, IndexToNode(n, depot, previous_index)),
                  total_distance |-> st.total_distance
                      + distance_matrix[IndexToNode(n, depot, previous_index) + 1]
                                       [IndexToNode(n, depot, index) + 1],
                  iterations |-> st.iterations + 1])

(***************************************************************************)
(* The while loop of solve_tsp_advanced that walks the solution from       *)
(* routing.Start(0) to the end: st holds the loop's variables.             *)
(***************************************************************************)
RECURSIVE extract_route(_, _, _, _)
extract_route(distance_matrix, depot, next, st) ==
    LET n == Len(distance_matrix)
    IN IF IsEnd(n, st.index)
       THEN st
       ELSE LET previous_index == st.index
                index == next[previous_index]
            IN extract_route(distance_matrix, depot, next,
                 [index |-> index,
                  route |-> Append(st.route, IndexToNode(n, depot, previous_index)),
                  total_distance |->
                      IF ~IsEnd(n, index)
                      THEN st.total_distance
                           + distance_matrix[IndexToNode(n, depot, previous_index) + 1]
                                            [IndexToNode(n, depot, index) + 1]
                      ELSE st.total_distance,
                  iterations |-> st.iterations + 1])

\* The closing step applied whether or not a return to the start was asked for.
close_route_always(distance_matrix, return_to_start, st) ==
    IF Len(st.route) > 1
    THEN [st EXCEPT
            !.total_distance = st.total_distance
                + distance_matrix[st.route[Len(st.route)] + 1][st.route[1] + 1],
            !.route = Append(st.route, st.route[1])]
    ELSE st

(***************************************************************************)
(* "Add final segment if returning to start": the closing edge is added to *)
(* the total and the first stop is appended.                               *)
(***************************************************************************)
close_route(distance_matrix, return_to_start, st) ==
    IF return_to_start /\ Len(st.route) > 1
    THEN [st EXCEPT
            !.total_distance = st.total_distance
                + distance_matrix[st.route[Len(st.route)] + 1][st.route[1] + 1],
            !.route = Append(st.route, st.route[1])]
    ELSE st

\* The cost of the cyclic identity order 0 -> 1 -> ... -> n-1 -> 0.
naive_distance(distance_matrix) ==
    LET n == Len(distance_matrix)
    IN SumSeq([k \in 1..n |-> distance_matrix[k][(k % n) + 1]])

(***************************************************************************)
(* solve_tsp_advanced, given the library's answer.  The result is either   *)
(* the returned tuple (route, total_distance, stats) or the ValueError     *)
(* that the except clause raises for anything raised in the try block: the *)
(* "No solution found" ValueError, and the ZeroDivisionError of the        *)
(* improvement percentage when naive_distance is 0.                        *)
(***************************************************************************)
solve_tsp_advanced(distance_matrix, optimization_type, start_location, return_to_start, solution) ==
    LET num_locations == Len(distance_matrix)
        depot == IF start_location # None THEN start_location[1] ELSE 0
        failed(msg) ==
            [raised |-> TRUE,
             error |-> "Failed to solve route optimization: " \o msg,
             route |-> <<>>, total_distance |-> 0, stats |-> None]
    IN IF solution = None
       THEN failed("No solution found for TSP")
       ELSE LET walked == extract_route(distance_matrix, depot, solution[1].next,
                              [index |-> depot, route |-> <<>>,
                               total_distance |-> 0, iterations |-> 0])
                closed == close_route(distance_matrix, return_to_start, walked)
                naive == naive_distance(distance_matrix)
            IN IF naive = 0
               THEN failed("float division by zero")
               ELSE [raised |-> FALSE,
                     error |-> "",
                     route |-> closed.route,
                     total_distance |-> closed.total_distance,
                     stats |-> Some(
                        [algorithm_used |->
                             "OR-Tools TSP (" \o optimization_type \o ")",
                         iterations |-> closed.iterations,
                         improvement_percentage |->
                             [num |-> Max(0, (naive - closed.total_distance) * 100),
                              den |-> naive]])]

\* The vehicle's average speed in km/h.
vehicle_speed(vehicle_type) ==
    CASE vehicle_type = "car" -> 50
      [] vehicle_type = "truck" -> 40
      [] vehicle_type = "bike" -> 15
      [] vehicle_type = "walking" -> 5
      [] OTHER -> 50

(***************************************************************************)
(* estimate_travel_time: distance / 1000 / speed * 3600 seconds.  With the *)
(* distance in decimetres the result is distance * 0.36 / speed seconds;   *)
(* it is kept in whole milliseconds (every speed is a multiple of 5).      *)
(***************************************************************************)
estimate_travel_time(distance, vehicle_type) ==
    (distance * 72) \div (vehicle_speed(vehicle_type) \div 5)

\* create_route_segments with a loop that stops one pair early.
create_route_segments_short(locations, route_order, distance_matrix, vehicle_type) ==
    [k \in 1..(Len(route_order) - 2) |->
        LET from_idx == route_order[k]
            to_idx == route_order[k + 1]
            distance == distance_matrix[from_idx + 1][to_idx + 1]
        IN [from_location |-> locations[from_idx + 1],
            to_location |-> locations[to_idx + 1],
            distance |-> distance,
            time |-> estimate_travel_time(distance, vehicle_type)]]

(***************************************************************************)
(* create_route_segments: one segment for each consecutive pair of the     *)
(* route, with the matrix entry of the pair as its distance.  (The         *)
(* instruction strings are formatted from the same fields and left out.)   *)
(***************************************************************************)
create_route_segments(locations, route_order, distance_matrix, vehicle_type) ==
    [k \in 1..(Len(route_order) - 1) |->
        LET from_idx == route_order[k]
            to_idx == route_order[k + 1]
            distance == distance_matrix[from_idx + 1][to_idx + 1]
        IN [from_location |-> locations[from_idx + 1],
            to_location |-> locations[to_idx + 1],
            distance |-> distance,
            time |-> estimate_travel_time(distance, vehicle_type)]]

(***************************************************************************)
(* Requests.                                                               *)
(***************************************************************************)
\* LocationInput values: coordinates only, an address only, nothing at all,
\* and an empty address with a latitude but no longitude.
LocationInputs ==
    {[address |-> None, lat |-> Some(0), lng |-> Some(0)],
     [address |-> None, lat |-> Some(0), lng |-> Some(1)],
     [address |-> Some("A"), lat |-> None, lng |-> None],
     [address |-> None, lat |-> None, lng |-> None],
     [address |-> Some(""), lat |-> Some(0), lng |-> None]}

\* The coordinate pairs of an OptimizeRequest.
CoordinateInputs == {<<0, 0>>, <<0, 1>>, <<0, 2>>}

SeqsUpTo(S, n) == UNION {[1..m -> S] : m \in 0..n}

\* RouteRequest values; a start_location, when given, is an index of the list.
RouteRequests ==
    {r \in [locations : SeqsUpTo(LocationInputs, MaxLocs),
            optimization_type : {"distance", "time", "balanced"},
            vehicle_type : {"car", "truck"},
            start_location : {None} \cup {Some(s) : s \in 0..(MaxLocs - 1)},
            return_to_start : BOOLEAN] :
        r.start_location = None \/ r.start_location[1] < Len(r.locations)}

\* OptimizeRequest values.
OptimizeRequests ==
    [locations : SeqsUpTo(CoordinateInputs, MaxLocs), return_to_start : BOOLEAN]

GeocodeRequests == [address : {"A"}]

(***************************************************************************)
(* Responses: what leaves a handler, a returned model or a raised          *)
(* HTTPException.  position is the number the detail text carries.         *)
(***************************************************************************)
NoResponse ==
    [kind |-> "none", status_code |-> 0, success |-> FALSE, error |-> "",
     position |-> 0, data |-> None]

HTTPException(status_code, detail, position) ==
    [kind |-> "HTTPException", status_code |-> status_code, success |-> FALSE,
     error |-> detail, position |-> position, data |-> None]

ApiResponse(success, data, error) ==
    [kind |-> "ApiResponse", status_code |-> 200, success |-> success,
     error |-> error, position |-> 0, data |-> data]

OptimizeResponse(order, total) ==
    [kind |-> "OptimizeResponse", status_code |-> 200, success |-> TRUE,
     error |-> "", position |-> 0,
     data |-> Some([order |-> order, total_distance |-> total])]

\* The length test with the wrong limit.
too_few_locations_below_one(locations) == Len(locations) < 1

\* "if len(request.locations) < 2" of both optimize handlers.
too_few_locations(locations) == Len(locations) < 2

\* A non-empty string: what Python's truth test of an Optional[str] accepts.
Truthy(address) == address # None /\ address[1] # ""

\* The loop body with a geocoding failure papered over by a default coordinate.
process_location_default_coordinate(i, loc_input, env) ==
    IF loc_input.lat # None /\ loc_input.lng # None
    THEN [ok |-> TRUE, geo |-> NoGeocode, error |-> "",
          location |-> Some([id |-> "loc_" \o ToString(i), address |-> "",
                             lat |-> loc_input.lat[1], lng |-> loc_input.lng[1]])]
    ELSE IF Truthy(loc_input.address)
    THEN LET g == geocode_address(loc_input.address[1], env)
             c == IF g.ok THEN g.coordinate[1] ELSE <<0, 0>>
         IN [ok |-> TRUE, geo |-> g, error |-> "",
             location |-> Some([id |-> "loc_" \o ToString(i),
                                address |-> loc_input.address[1],
                                lat |-> c[1], lng |-> c[2]])]
    ELSE [ok |-> FALSE, geo |-> NoGeocode, location |-> None,
          error |-> "Either address or coordinates must be provided"]

(***************************************************************************)
(* The try block of the loop over request.locations in optimize_route,     *)
(* for the location at index i: the Location built, or the error raised.   *)
(***************************************************************************)
process_location(i, loc_input, env) ==
    IF loc_input.lat # None /\ loc_input.lng # None
    THEN [ok |-> TRUE, geo |-> NoGeocode, error |-> "",
          location |-> Some(
             [id |-> "loc_" \o ToString(i),
              address |-> IF Truthy(loc_input.address)
                          THEN loc_input.address[1]
                          ELSE ToString(loc_input.lat[1]) \o ".0, "
                                   \o ToString(loc_input.lng[1]) \o ".0",
              lat |-> loc_input.lat[1],
              lng |-> loc_input.lng[1]])]
    ELSE IF Truthy(loc_input.address)
    THEN LET g == geocode_address(loc_input.address[1], env)
         IN IF g.ok
            THEN [ok |-> TRUE, geo |-> g, error |-> "",
                  location |-> Some(
                     [id |-> "loc_" \o ToString(i),
                      address |-> loc_input.address[1],
                      lat |-> g.coordinate[1][1],
                      lng |-> g.coordinate[1][2]])]
            ELSE [ok |-> FALSE, geo |-> g, error |-> g.error, location |-> None]
    ELSE [ok |-> FALSE, geo |-> NoGeocode, location |-> None,
          error |-> "Either address or coordinates must be provided"]

\* The except clause of the loop: the client error for the location at index i.
location_error(i, error) ==
    HTTPException(400, "Error processing location " \o ToString(i + 1)
                           \o ": " \o error, i + 1)

\* A solver failure passed on as a server error, as optimize_simple does.
route_exception_response_http(error) == HTTPException(500, error, 0)

\* "except Exception" of optimize_route: the failure envelope.
route_exception_response(error) ==
    ApiResponse(FALSE, None, "Route optimization failed: " \o error)

(***************************************************************************)
(* State.                                                                  *)
(***************************************************************************)
VARIABLES
    pc,                  \* where the handler of the current request stands
    endpoint,            \* the route of the current request
    request,             \* the request body
    i,                   \* optimize_route: index of the next location
    processed_locations, \* optimize_route: the Locations built so far
    coordinates,         \* optimize_route: their coordinates
    distance_matrix,     \* the cost matrix, once calculated
    solution,            \* the routing library's answer to the last solve
    route_order,         \* returned by solve_tsp_advanced
    total_distance,      \* returned by solve_tsp_advanced
    optimization_stats,  \* returned by solve_tsp_advanced
    segments,            \* returned by create_route_segments
    response,            \* what left the handler
    env,                 \* the providers' behaviour at the last geocode call
    geo,                 \* the outcome of the last geocode_address call
    geocode_calls,       \* indices geocoded for this request, in call order
    matrix_calls,        \* calculate_distance_matrix calls for this request
    solve_calls          \* solve_tsp_advanced calls for this request

vars ==
    <<pc, endpoint, request, i, processed_locations, coordinates,
      distance_matrix, solution, route_order, total_distance,
      optimization_stats, segments, response, env, geo, geocode_calls,
      matrix_calls, solve_calls>>

NoEnv == [osm |-> "unused", arcgis |-> "unused"]

Init ==
    /\ pc = "idle"
    /\ endpoint = "none"
    /\ request = None
    /\ i = 0
    /\ processed_locations = <<>>
    /\ coordinates = <<>>
    /\ distance_matrix = <<>>
    /\ solution = None
    /\ route_order = <<>>
    /\ total_distance = 0
    /\ optimization_stats = None
    /\ segments = <<>>
    /\ response = NoResponse
    /\ env = NoEnv
    /\ geo = NoGeocode
    /\ geocode_calls = <<>>
    /\ matrix_calls = 0
    /\ solve_calls = 0

\* A handler is entered: its locals are fresh.
Enter(ep, req) ==
    /\ pc = "idle"
    /\ endpoint' = ep
    /\ request' = Some(req)
    /\ i' = 0
    /\ processed_locations' = <<>>
    /\ coordinates' = <<>>
    /\ distance_matrix' = <<>>
    /\ solution' = None
    /\ route_order' = <<>>
    /\ total_distance' = 0
    /\ optimization_stats' = None
    /\ segments' = <<>>
    /\ geocode_calls' = <<>>
    /\ matrix_calls' = 0
    /\ solve_calls' = 0

(***************************************************************************)
(* POST /geocode.                                                          *)
(***************************************************************************)
geocode_endpoint(req, e) ==
    /\ Enter("geocode", req)
    /\ LET g == geocode_address(req.address, e)
       IN /\ env' = e
          /\ geo' = g
          /\ response' = IF g.ok
                         THEN ApiResponse(TRUE,
                                  Some([lat |-> g.coordinate[1][1],
                                        lng |-> g.coordinate[1][2]]), "")
                         ELSE ApiResponse(FALSE, None, g.error)
    /\ pc' = "done"

(***************************************************************************)
(* POST /optimize.                                                         *)
(***************************************************************************)
optimize_simple_begin(req) ==
    /\ Enter("optimize", req)
    /\ env' = NoEnv
    /\ geo' = NoGeocode
    /\ IF too_few_locations(req.locations)
       THEN /\ response' = HTTPException(400, "At least 2 locations are required", 0)
            /\ pc' = "done"
       ELSE /\ response' = NoResponse
            /\ pc' = "simple_matrix"

optimize_simple_matrix ==
    /\ pc = "simple_matrix"
    /\ distance_matrix' = calculate_distance_matrix(request[1].locations, "car")
    /\ matrix_calls' = matrix_calls + 1
    /\ pc' = "simple_solve"
    /\ UNCHANGED <<endpoint, request, i, processed_locations, coordinates,
                   solution, route_order, total_distance, optimization_stats,
                   segments, response, env, geo, geocode_calls, solve_calls>>

optimize_simple_solve ==
    /\ pc = "simple_solve"
    /\ \E sol \in SolveWithParameters(distance_matrix, "distance", 0) :
          LET r == solve_tsp_advanced(distance_matrix, "distance", Some(0),
                                      request[1].return_to_start, sol)
          IN /\ solution' = sol
             /\ IF r.raised
                THEN /\ response' = HTTPException(500, r.error, 0)
                     /\ UNCHANGED <<route_order, total_distance>>
                ELSE /\ response' = OptimizeResponse(r.route, r.total_distance)
                     /\ route_order' = r.route
                     /\ total_distance' = r.total_distance
    /\ solve_calls' = solve_calls + 1
    /\ pc' = "done"
    /\ UNCHANGED <<endpoint, request, i, processed_locations, coordinates,
                   distance_matrix, optimization_stats, segments, env, geo,
                   geocode_calls, matrix_calls>>

(***************************************************************************)
(* POST /optimize-route.                                                   *)
(***************************************************************************)
optimize_route_begin(req) ==
    /\ Enter("optimize-route", req)
    /\ env' = NoEnv
    /\ geo' = NoGeocode
    /\ IF too_few_locations(req.locations)
       THEN /\ response' = HTTPException(400, "At least 2 locations are required", 0)
            /\ pc' = "done"
       ELSE /\ response' = NoResponse
            /\ pc' = "route_locations"

\* One turn of the loop over request.locations.
optimize_route_location(e) ==
    /\ pc = "route_locations"
    /\ i < Len(request[1].locations)
    /\ LET r == process_location(i, request[1].locations[i + 1], e)
       IN /\ geo' = r.geo
          /\ env' = IF r.geo.called THEN e ELSE NoEnv
          /\ geocode_calls' = IF r.geo.called
                              THEN Append(geocode_calls, i)
                              ELSE geocode_calls
          /\ IF r.ok
             THEN /\ processed_locations' = Append(processed_locations, r.location[1])
                  /\ coordinates' = Append(coordinates,
                                       <<r.location[1].lat, r.location[1].lng>>)
                  /\ i' = i + 1
                  /\ pc' = IF i + 1 < Len(request[1].locations)
                           THEN "route_locations"
                           ELSE "route_matrix"
                  /\ UNCHANGED response
             ELSE /\ response' = location_error(i, r.error)
                  /\ pc' = "done"
                  /\ UNCHANGED <<processed_locations, coordinates, i>>
    /\ UNCHANGED <<endpoint, request, distance_matrix, solution, route_order,
                   total_distance, optimization_stats, segments, matrix_calls,
                   solve_calls>>

optimize_route_matrix ==
    /\ pc = "route_matrix"
    /\ distance_matrix' = calculate_distance_matrix(coordinates,
                                                    request[1].vehicle_type)
    /\ matrix_calls' = matrix_calls + 1
    /\ pc' = "route_solve"
    /\ UNCHANGED <<endpoint, request, i, processed_locations, coordinates,
                   solution, route_order, total_distance, optimization_stats,
                   segments, response, env, geo, geocode_calls, solve_calls>>

optimize_route_solve ==
    /\ pc = "route_solve"
    /\ LET depot == IF request[1].start_location # None
                    THEN request[1].start_location[1] ELSE 0
       IN \E sol \in SolveWithParameters(distance_matrix,
                                         request[1].optimization_type, depot) :
            LET r == solve_tsp_advanced(distance_matrix,
                                        request[1].optimization_type,
                                        request[1].start_location,
                                        request[1].return_to_start, sol)
            IN /\ solution' = sol
               /\ IF r.raised
                  THEN /\ response' = route_exception_response(r.error)
                       /\ pc' = "done"
                       /\ UNCHANGED <<route_order, total_distance,
                                      optimization_stats>>
                  ELSE /\ route_order' = r.route
                       /\ total_distance' = r.total_distance
                       /\ optimization_stats' = r.stats
                       /\ pc' = "route_segments"
                       /\ UNCHANGED response
    /\ solve_calls' = solve_calls + 1
    /\ UNCHANGED <<endpoint, request, i, processed_locations, coordinates,
                   distance_matrix, segments, env, geo, geocode_calls,
                   matrix_calls>>

\* From estimate_travel_time to the returned ApiResponse.
optimize_route_respond ==
    /\ pc = "route_segments"
    /\ LET total_time == estimate_travel_time(total_distance,
                                              request[1].vehicle_type)
           segs == create_route_segments(processed_locations, route_order,
                                         distance_matrix,
                                         request[1].vehicle_type)
       IN /\ segments' = segs
          /\ response' = ApiResponse(TRUE,
                Some([locations |-> processed_locations,
                      total_distance |-> total_distance,
                      total_time |-> total_time,
                      route_order |-> route_order,
                      segments |-> segs,
                      optimization_stats |-> optimization_stats]), "")
    /\ pc' = "done"
    /\ UNCHANGED <<endpoint, request, i, processed_locations, coordinates,
                   distance_matrix, solution, route_order, total_distance,
                   optimization_stats, env, geo, geocode_calls, matrix_calls,
                   solve_calls>>

\* The response is sent and the handler's locals are discarded.
request_complete ==
    /\ pc = "done"
    /\ pc' = "idle"
    /\ endpoint' = "none"
    /\ request' = None
    /\ i' = 0
    /\ processed_locations' = <<>>
    /\ coordinates' = <<>>
    /\ distance_matrix' = <<>>
    /\ solution' = None
    /\ route_order' = <<>>
    /\ total_distance' = 0
    /\ optimization_stats' = None
    /\ segments' = <<>>
    /\ response' = NoResponse
    /\ env' = NoEnv
    /\ geo' = NoGeocode
    /\ geocode_calls' = <<>>
    /\ matrix_calls' = 0
    /\ solve_calls' = 0

Next ==
    \/ pc = "idle" /\ \E req \in GeocodeRequests, e \in ProviderEnvs :
                          geocode_endpoint(req, e)
    \/ pc = "idle" /\ \E req \in OptimizeRequests : optimize_simple_begin(req)
    \/ optimize_simple_matrix
    \/ optimize_simple_solve
    \/ pc = "idle" /\ \E req \in RouteRequests : optimize_route_begin(req)
    \/ pc = "route_locations" /\ \E e \in ProviderEnvs : optimize_route_location(e)
    \/ optimize_route_matrix
    \/ optimize_route_solve
    \/ optimize_route_respond
    \/ request_complete

Spec == Init /\ [][Next]_vars

(***************************************************************************)
(* Properties.                                                             *)
(***************************************************************************)
Solving == endpoint \in {"optimize", "optimize-route"}

\* The number of stops of the current request.
NumStops == Len(request[1].locations)

\* The start index the handler passes to the solver, None read as 0.
StartIndex ==
    IF endpoint = "optimize-route" /\ request[1].start_location # None
    THEN request[1].start_location[1]
    ELSE 0

ClosedTour == request[1].return_to_start

\* solve_tsp_advanced has returned a route to the handler.
RouteReturned == Solving /\ solve_calls = 1 /\ route_order # <<>>

\* The route without the closing duplicate of the start (closed tours only).
VisitOrder ==
    IF ClosedTour THEN SubSeq(route_order, 1, Len(route_order) - 1) ELSE route_order

\* The raw matrix entries summed over the consecutive pairs of a route.
PathCost(route) ==
    SumSeq([k \in 1..(Len(route) - 1) |->
               distance_matrix[route[k] + 1][route[k + 1] + 1]])

\* A location with neither both coordinates nor an address.
Unresolvable(loc_input) ==
    /\ ~(loc_input.lat # None /\ loc_input.lng # None)
    /\ ~Truthy(loc_input.address)

\* C1: a returned route, without the closing duplicate of the start, holds
\* every index of 0..N-1 exactly once.
C1_RouteIsPermutation ==
    RouteReturned =>
        /\ Len(VisitOrder) = NumStops
        /\ \A v \in 0..(NumStops - 1) :
              Cardinality({k \in 1..Len(VisitOrder) : VisitOrder[k] = v}) = 1

C1_Witness ==
    /\ RouteReturned
    /\ ClosedTour
    /\ NumStops = 3
    /\ StartIndex = 2
    /\ Len(route_order) = 4

\* C2: a returned route begins at the start index; a closed tour ends at the
\* start with N + 1 entries, an open one has N entries and ends elsewhere.
C2_RouteStartAndEnd ==
    RouteReturned =>
        /\ route_order[1] = StartIndex
        /\ ClosedTour =>
              /\ route_order[Len(route_order)] = route_order[1]
              /\ Len(route_order) = NumStops + 1
        /\ ~ClosedTour =>
              /\ Len(route_order) = NumStops
              /\ route_order[Len(route_order)] # StartIndex

C2_Witness ==
    /\ RouteReturned
    /\ ~ClosedTour
    /\ NumStops = 3
    /\ StartIndex = 1
    /\ route_order[1] = 1
    /\ Len(route_order) = 3

\* C3: on /optimize and /optimize-route a request with fewer than 2 locations
\* ends at once in a 400 client error, and no geocode_address,
\* calculate_distance_matrix or solve_tsp_advanced call is made for it.
C3_TooFewLocationsRejectedFirst ==
    (Solving /\ NumStops < 2) =>
        /\ pc = "done"
        /\ response.kind = "HTTPException"
        /\ response.status_code = 400
        /\ geocode_calls = <<>>
        /\ matrix_calls = 0
        /\ solve_calls = 0

C3_Witness ==
    /\ endpoint = "optimize-route"
    /\ NumStops = 1
    /\ Truthy(request[1].locations[1].address)
    /\ pc = "done"
    /\ response.status_code = 400

\* C4 (as claimed): on /optimize-route a request of N >= 2 locations with an
\* unresolvable location is rejected with a client error naming such a
\* location, and no geocode_address call is ever made for the request.
C4_ValidationBeforeGeocoding ==
    (/\ endpoint = "optimize-route"
     /\ NumStops >= 2
     /\ \E k \in 1..NumStops : Unresolvable(request[1].locations[k]))
    => /\ geocode_calls = <<>>
       /\ pc = "done" =>
             /\ response.kind = "HTTPException"
             /\ response.status_code = 400
             /\ response.position \in 1..NumStops
             /\ Unresolvable(request[1].locations[response.position])

\* The coordinate the code may hold for a location: the one given, or the one
\* a provider reported for its address.
Resolved(loc_input, coordinate) ==
    IF loc_input.lat # None /\ loc_input.lng # None
    THEN coordinate = <<loc_input.lat[1], loc_input.lng[1]>>
    ELSE /\ Truthy(loc_input.address)
         /\ coordinate \in {geolocator_osm(loc_input.address[1]),
                            geolocator_arcgis(loc_input.address[1])}

\* C5: on /optimize-route a geocoding failure ends the request in a 400
\* client error carrying the failed location's position, with no coordinate
\* added for it and no matrix or solver call; the matrix and the solver run
\* only on one resolved coordinate per location of the request.
C5_NoSolvingOnGeocodingFailure ==
    endpoint = "optimize-route" =>
        /\ (geo.called /\ ~geo.ok) =>
              /\ pc = "done"
              /\ response.kind = "HTTPException"
              /\ response.status_code = 400
              /\ response.position = i + 1
              /\ geocode_calls[Len(geocode_calls)] = i
              /\ Len(coordinates) = i
              /\ matrix_calls = 0
              /\ solve_calls = 0
        /\ (matrix_calls > 0 \/ solve_calls > 0) =>
              /\ Len(coordinates) = NumStops
              /\ \A k \in 1..NumStops :
                    Resolved(request[1].locations[k], coordinates[k])
        /\ \A k \in 1..Len(coordinates) :
              Resolved(request[1].locations[k], coordinates[k])

C5_Witness ==
    /\ endpoint = "optimize-route"
    /\ geo.called
    /\ ~geo.ok
    /\ i = 1
    /\ Len(coordinates) = 1
    /\ geocode_calls = <<0, 1>>
    /\ pc = "done"

\* The three kinds of failure of an /optimize-route request.
InvalidInput ==
    /\ endpoint = "optimize-route"
    /\ pc = "done"
    /\ matrix_calls = 0
    /\ ~geo.called

GeocodingFailure ==
    /\ endpoint = "optimize-route"
    /\ pc = "done"
    /\ geo.called
    /\ ~geo.ok

NoSolutionFound ==
    /\ endpoint = "optimize-route"
    /\ pc = "done"
    /\ solve_calls = 1
    /\ solution = None

\* C6 (as claimed): each of the three kinds of failure ends as a response
\* envelope with success = false and a populated error field.
C6_AllFailuresInEnvelope ==
    (InvalidInput \/ GeocodingFailure \/ NoSolutionFound) =>
        /\ response.kind = "ApiResponse"
        /\ ~response.success
        /\ response.error # ""

\* C6 (amended): NoSolutionFound ends as a response envelope with success =
\* false and a populated error field; InvalidInput and GeocodingFailure leave
\* the handler as an HTTPException of status 400 with a populated detail.
C6_OnlySolverFailureInEnvelope ==
    /\ NoSolutionFound =>
          /\ response.kind = "ApiResponse"
          /\ ~response.success
          /\ response.error # ""
    /\ (InvalidInput \/ GeocodingFailure) =>
          /\ response.kind = "HTTPException"
          /\ response.status_code = 400
          /\ response.error # ""

C6_Witness ==
    /\ NoSolutionFound
    /\ NumStops = 3
    /\ geocode_calls # <<>>
    /\ response.kind = "ApiResponse"
    /\ ~response.success

\* The cost matrix is symmetric with a zero diagonal and no negative entry.
SymmetricNonNegative ==
    \A a, b \in 1..Len(distance_matrix) :
        /\ distance_matrix[a][b] = distance_matrix[b][a]
        /\ distance_matrix[a][a] = 0
        /\ distance_matrix[a][b] >= 0

\* C7 (as claimed): on a symmetric non-negative matrix for which the routing
\* library finds a tour, solve_tsp_advanced returns a result with total
\* cost >= 0 and an improvement percentage in [0, 100].
C7_ResultForEveryNonNegativeMatrix ==
    (Solving /\ solve_calls = 1 /\ solution # None /\ SymmetricNonNegative) =>
        /\ RouteReturned
        /\ total_distance >= 0
        /\ endpoint = "optimize-route" =>
              /\ optimization_stats # None
              /\ optimization_stats[1].improvement_percentage.den > 0
              /\ optimization_stats[1].improvement_percentage.num >= 0
              /\ optimization_stats[1].improvement_percentage.num
                    <= 100 * optimization_stats[1].improvement_percentage.den

\* C8: whatever the strategy, the returned total is the sum of the raw
\* matrix entries over the consecutive pairs of the returned route (the
\* closing edge is a pair of a closed route); for N = 2 it is cost(0,1),
\* twice that for a closed tour.
C8_TotalIsRawPathCost ==
    RouteReturned =>
        /\ total_distance = PathCost(route_order)
        /\ total_distance =
              PathCost(VisitOrder)
              + (IF ClosedTour
                 THEN distance_matrix[VisitOrder[Len(VisitOrder)] + 1]
                                     [VisitOrder[1] + 1]
                 ELSE 0)
        /\ NumStops = 2 =>
              total_distance = (IF ClosedTour THEN 2 ELSE 1) * distance_matrix[1][2]

C8_Witness ==
    /\ RouteReturned
    /\ endpoint = "optimize-route"
    /\ request[1].optimization_type = "time"
    /\ ~ClosedTour
    /\ NumStops = 3
    /\ total_distance > 0
    /\ distance_matrix[route_order[3] + 1][route_order[1] + 1] > 0
    /\ solution[1].objective * 10 # total_distance

\* The segments of an /optimize-route response have been built.
SegmentsBuilt ==
    /\ endpoint = "optimize-route"
    /\ pc = "done"
    /\ response.success

\* C9: create_route_segments returns len(route_order) - 1 segments in route
\* order, segment k from the stop at route_order[k] to the stop at
\* route_order[k+1] with the raw matrix entry as its distance, so that the
\* distances sum to total_distance; building them changes neither the route
\* nor the matrix.
C9_SegmentsFollowRoute ==
    /\ [](SegmentsBuilt =>
            /\ Len(segments) = Len(route_order) - 1
            /\ \A k \in 1..Len(segments) :
                  /\ segments[k].from_location
                        = processed_locations[route_order[k] + 1]
                  /\ segments[k].to_location
                        = processed_locations[route_order[k + 1] + 1]
                  /\ segments[k].distance
                        = distance_matrix[route_order[k] + 1][route_order[k + 1] + 1]
            /\ ClosedTour =>
                  segments[Len(segments)].to_location
                      = processed_locations[StartIndex + 1]
            /\ SumSeq([k \in 1..Len(segments) |-> segments[k].distance])
                  = response.data[1].total_distance
            /\ response.data[1].segments = segments
            /\ response.data[1].route_order = route_order)
    /\ [][pc = "route_segments" =>
            /\ route_order' = route_order
            /\ distance_matrix' = distance_matrix]_vars

C9_Witness ==
    /\ SegmentsBuilt
    /\ ClosedTour
    /\ NumStops = 3
    /\ Len(segments) = 3
    /\ segments[1].distance > 0
    /\ segments[3].to_location.id = "loc_1"

\* C10 (as claimed): geocode_address tries the primary provider first, tries
\* the secondary whenever the primary did not resolve the address, fails
\* only after both were tried, and returns the secondary's coordinates
\* whenever the secondary can resolve what the primary could not.
C10_FallbackOnAnyPrimaryFailure ==
    geo.called =>
        /\ geo.attempts[1] = "osm"
        /\ env.osm # "found" => geo.attempts = <<"osm", "arcgis">>
        /\ ~geo.ok => (geo.attempts = <<"osm", "arcgis">>
                       /\ env.osm # "found" /\ env.arcgis # "found")
        /\ (env.osm # "found" /\ env.arcgis = "found") =>
              /\ geo.ok
              /\ geo.coordinate = Some(geolocator_arcgis("A"))

====
